---- MODULE Spec2Model ----
(***************************************************************************)
(* A model of the free-algebra crate: the term/coefficient container       *)
(* ModuleString (src/src/module.rs), the letter-sequence container         *)
(* MonoidalString (src/src/monoid.rs) and the rule catalog                 *)
(* (src/src/specifics.rs).                                                 *)
(*                                                                         *)
(* Coefficients are the ring Z/RingMod (a ring with zero divisors when     *)
(* RingMod is composite).  Terms of a ModuleString are the residues        *)
(* 0..TermMod-1, a type with an intrinsic addition, so that AddRule gives  *)
(* the container a multiplication.  A (coefficient, term) pair (R,T) is    *)
(* the tuple <<r, t>>.  A HashMap<T,R> is a function whose domain is the   *)
(* set of stored terms.                                                    *)
(***************************************************************************)
EXTENDS Integers, Sequences, FiniteSets, Bags, TLC

(* ------------------------------ bounds --------------------------------- *)
RingMod == 4
TermMod == 2
MaxOps == 3
MaxPow == 3

VARIABLES
    terms,      \* ModuleString.terms of the element operated on
    other,      \* ModuleString.terms of a second element
    op,         \* name of the last operation applied
    log,        \* history: the bag of (coefficient, term) pairs inserted so far
    it_live,    \* an IterMut borrowing the element exists
    it_next,    \* IterMut.next : Option<(R,T)>, <<>> or <<pair>>
    it_iter,    \* IterMut.iter : the staged pairs not yet yielded, in order
    it_done,    \* the last call of IterMut::next returned None
    yielded,    \* history: the pairs yielded so far, as the caller left them
    unyielded,  \* history: the staged pairs never yielded when dropped
    pre,        \* history: <<element>> before iter_mut(), <<>> once mutated
    string,     \* MonoidalString.string of the word operated on
    saved,      \* a clone of the word taken earlier
    trail,      \* history: the letters appended since the clone was taken
    arg,        \* history: the exponent, key or scalar handed to the last operation, else 0
    ret         \* what the last lookup returned: <<>>, <<"Ok", v>> or <<"panic">>

vars == <<terms, other, op, log, it_live, it_next, it_iter, it_done,
          yielded, unyielded, pre, string, saved, trail, arg, ret>>

modVars == <<terms, other, log, ret>>
iterVars == <<it_live, it_next, it_iter, it_done, yielded, unyielded, pre>>
wordVars == <<string, saved, trail, arg>>

(* ----------------------- the coefficient ring R ------------------------ *)
Ring == 0..(RingMod - 1)
Terms == 0..(TermMod - 1)
Pairs == Ring \X Terms

RAdd(a, b) == (a + b) % RingMod
RNeg(a) == (RingMod - a) % RingMod
RMul(a, b) == (a * b) % RingMod
ROne == 1 % RingMod
\* the ring element of an integer literal
RLit(n) == IF n >= 0 THEN n % RingMod ELSE RNeg((0 - n) % RingMod)

IsZero(r) == r = 0

(* ------------------------ ModuleString: storage ------------------------ *)
zero == [t \in {} |-> 0]

MapInsert(m, t, r) == [x \in (DOMAIN m) \cup {t} |-> IF x = t THEN r ELSE m[x]]
MapRemove(m, t) == [x \in (DOMAIN m) \ {t} |-> m[x]]

\* len counting the entries that hold a non-zero coefficient
len_nonzero(m) == Cardinality({t \in DOMAIN m : m[t] # 0})

len(m) == Cardinality(DOMAIN m)

\* get defaulting to the ring one
get_or_one(m, t) == IF t \in DOMAIN m THEN m[t] ELSE 1 % RingMod

get(m, t) == IF t \in DOMAIN m THEN m[t] ELSE 0

\* Index: &self.terms[i], the HashMap panicking on a key it does not hold
index(m, t) == IF t \in DOMAIN m THEN <<"Ok", m[t]>> ELSE <<"panic">>
is_zero(m) == len(m) = 0

\* the sign function handed to insert_term: |r| r or |r| -r
Sign(f, r) == IF f = "neg" THEN RNeg(r) ELSE r

\* insert_term leaving the entry in place when the sum is zero
insert_term_keeps_zero(m, rhs, f) ==
    IF ~IsZero(rhs[1])
    THEN LET r == Sign(f, rhs[1])
             t == rhs[2]
         IN  IF t \in DOMAIN m
             THEN MapInsert(m, t, RAdd(m[t], r))
             ELSE IF ~IsZero(r) THEN MapInsert(m, t, r) ELSE m
    ELSE m

insert_term(m, rhs, f) ==
    IF ~IsZero(rhs[1])
    THEN LET r == Sign(f, rhs[1])
             t == rhs[2]
         IN  IF t \in DOMAIN m
             THEN LET r2 == RAdd(m[t], r)
                  IN  IF IsZero(r2) THEN MapRemove(m, t) ELSE MapInsert(m, t, r2)
             ELSE IF ~IsZero(r) THEN MapInsert(m, t, r) ELSE m
    ELSE m

RECURSIVE insert(_, _, _)
insert(m, rhs, f) ==
    IF rhs = <<>> THEN m
    ELSE insert(insert_term(m, Head(rhs), f), Tail(rhs), f)

\* extend overwriting the coefficient of a term already stored
RECURSIVE extend_overwrites(_, _)
extend_overwrites(m, iter) ==
    IF iter = <<>> THEN m
    ELSE extend_overwrites(
             IF IsZero(Head(iter)[1]) THEN m ELSE MapInsert(m, Head(iter)[2], Head(iter)[1]),
             Tail(iter))

extend(m, iter) == insert(m, iter, "id")
from_iter(iter) == extend(zero, iter)

\* The order in which a HashMap hands out its entries is not specified:
\* an iteration follows some enumeration ho of the terms.
HashOrders == {ho \in [1..TermMod -> Terms] : \A i, j \in 1..TermMod : i # j => ho[i] # ho[j]}

RECURSIVE into_iter(_, _)
into_iter(m, ho) ==
    IF ho = <<>> THEN <<>>
    ELSE (IF Head(ho) \in DOMAIN m THEN << <<m[Head(ho)], Head(ho)>> >> ELSE <<>>)
         \o into_iter(m, Tail(ho))

\* every sequence in which m can hand out its entries
iters(m) == {into_iter(m, ho) : ho \in HashOrders}

(* ------------------------------ helpers -------------------------------- *)
SeqsUpTo(S, n) == UNION {[1..k -> S] : k \in 0..n}

\* the ring sum of the coefficients of the pairs of s whose term is t
RECURSIVE SumFor(_, _)
SumFor(s, t) ==
    IF s = <<>> THEN 0
    ELSE RAdd(IF Head(s)[2] = t THEN Head(s)[1] ELSE 0, SumFor(Tail(s), t))

\* the same sum over a bag of pairs
RECURSIVE BagSumOver(_, _, _)
BagSumOver(bag, S, t) ==
    IF S = {} THEN 0
    ELSE LET pr == CHOOSE x \in S : TRUE
         IN  RAdd(IF pr[2] = t THEN (bag[pr] * pr[1]) % RingMod ELSE 0,
                  BagSumOver(bag, S \ {pr}, t))
BagSumFor(bag, t) == BagSumOver(bag, BagToSet(bag), t)

RECURSIVE SeqToBag(_)
SeqToBag(s) == IF s = <<>> THEN EmptyBag ELSE SetToBag({Head(s)}) (+) SeqToBag(Tail(s))

\* every order in which the pairs of a bag can be handed over
Orderings(bag) ==
    {s \in [1..BagCardinality(bag) -> BagToSet(bag)] : SeqToBag(s) = bag}

IterIdle ==
    /\ it_live = FALSE
    /\ it_next = <<>>
    /\ it_iter = <<>>
    /\ it_done = FALSE
    /\ yielded = <<>>
    /\ unyielded = <<>>
    /\ pre = <<>>

WordIdle ==
    /\ string = <<>>
    /\ saved = <<>>
    /\ trail = <<>>
    /\ arg = 0

(* ------------- additive insertions, starting from zero() --------------- *)
InitAdd ==
    /\ terms = zero
    /\ other = zero
    /\ op = "zero"
    /\ log = EmptyBag
    /\ ret = <<>>
    /\ IterIdle
    /\ WordIdle

\* AddAssign<(R,T)>: p += (r, t)
AddTerm(r, t) ==
    /\ BagCardinality(log) < MaxOps
    /\ terms' = insert_term(terms, <<r, t>>, "id")
    /\ log' = log (+) SetToBag({<<r, t>>})
    /\ UNCHANGED ret
    /\ op' = "add_term"
    /\ UNCHANGED <<other, iterVars, wordVars>>

\* Extend<(R,T)>: p.extend(pairs)
Extend(pairs) ==
    /\ BagCardinality(log) + Len(pairs) <= MaxOps
    /\ terms' = extend(terms, pairs)
    /\ log' = log (+) SeqToBag(pairs)
    /\ UNCHANGED ret
    /\ op' = "extend"
    /\ UNCHANGED <<other, iterVars, wordVars>>

\* FromIterator<(R,T)>: q = the same pairs, collected in the order s
FromIter(s) ==
    /\ other' = from_iter(s)
    /\ op' = "from_iter"
    /\ UNCHANGED <<terms, log, ret, iterVars, wordVars>>

\* AddAssign<Self>: p += q, q handing out its entries in the order s
AddSelf(s) ==
    /\ BagCardinality(log) + len(other) <= MaxOps
    /\ terms' = insert(terms, s, "id")
    /\ log' = log (+) SeqToBag(s)
    /\ UNCHANGED ret
    /\ op' = "add_assign"
    /\ UNCHANGED <<other, iterVars, wordVars>>

NextAdd ==
    \/ \E r \in Ring, t \in Terms : AddTerm(r, t)
    \/ \E pairs \in SeqsUpTo(Pairs, 2) : Extend(pairs)
    \/ \E s \in Orderings(log) : FromIter(s)
    \/ \E s \in iters(other) : AddSelf(s)

SpecAdd == InitAdd /\ [][NextAdd]_vars

\* the example of the merge: (1,x), (2,x), (-3,x)
Example(n, x) ==
    SeqToBag(SubSeq(<< <<RLit(1), x>>, <<RLit(2), x>>, <<RLit(-3), x>> >>, 1, n))

(* C1: starting from zero(), after any sequence of additive insertions     *)
(* get(t) is the ring sum of the coefficients inserted for t, and t has a  *)
(* stored entry iff that sum is non-zero; adding (1,x), (2,x), (-3,x) in   *)
(* turn gives {x:1}, {x:3} and then zero().                                *)
MergeCorrect ==
    /\ \A t \in Terms :
          /\ get(terms, t) = BagSumFor(log, t)
          /\ (t \in DOMAIN terms) <=> (BagSumFor(log, t) # 0)
    /\ \A x \in Terms :
          /\ log = Example(1, x) => terms = MapInsert(zero, x, RLit(1))
          /\ log = Example(2, x) => terms = MapInsert(zero, x, RLit(3))
          /\ log = Example(3, x) => terms = zero

MergeCorrectWitness ==
    \E x \in Terms :
        /\ log = Example(3, x)
        /\ terms = zero

(* C3: the same multiset of pairs inserted into zero() in two different    *)
(* orders (+= and extend in one order, from_iter in a permuted order)      *)
(* gives equal elements.                                                   *)
OrderIndependent == op = "from_iter" => other = terms

OrderIndependentWitness ==
    /\ op = "from_iter"
    /\ BagCardinality(log) = 3
    /\ len(other) = 1
    /\ \E pr \in BagToSet(log) : pr[1] # 0 /\ pr[2] \notin DOMAIN other

(* --------------------- ModuleString: the operations -------------------- *)
Units == {s \in Ring : \E x \in Ring : RMul(x, s) = ROne}
\* division of the ring, defined for the invertible divisors
RDiv(a, s) == CHOOSE x \in Ring : RMul(x, s) = a

\* From<(R,T)> and From<T>
from_pair(r, t) == MapInsert(zero, t, r)
from_term(t) == from_pair(ROne, t)

\* HashMap::retain(|_,r| !r._is_zero())
clean(m) == [t \in {x \in DOMAIN m : ~IsZero(m[x])} |-> m[t]]

\* MulAssign<R> without the call of clean
mul_scalar_unclean(m, s) == [t \in DOMAIN m |-> RMul(m[t], s)]

\* MulAssign<R> and DivAssign<R>
mul_scalar(m, s) == clean([t \in DOMAIN m |-> RMul(m[t], s)])
div_scalar(m, s) == clean([t \in DOMAIN m |-> RDiv(m[t], s)])

\* Neg: map every (t,r) to (t,-r), filter, collect
neg(m) == [t \in {x \in DOMAIN m : IsZero(RNeg(m[x]))} |-> RNeg(m[t])]

\* AddRule: terms multiply by their intrinsic addition, no extra coefficient
TAdd(t1, t2) == (t1 + t2) % TermMod
AddRule_apply(t1, t2) == << <<>>, TAdd(t1, t2) >>
AddRule_one == 0 % TermMod
AddRule_is_one(t) == t = 0 % TermMod

\* MulRule: terms multiply by their intrinsic multiplication, no extra
\* coefficient.  The terms are taken with a multiplication that is
\* associative and does not commute: t1*t2 is t1 (non-empty words cut to
\* their first letter).
TMul(t1, t2) == t1
MulRule_apply(t1, t2) == << <<>>, TMul(t1, t2) >>

\* the rule A of an element, selected by name
A_apply(A, t1, t2) == IF A = "AddRule" THEN AddRule_apply(t1, t2) ELSE MulRule_apply(t1, t2)

\* the closure of MulAssign<(R,T)> adding the coefficients r and r1
MulOne_adds(A, pr, r1, t1) ==
    LET a == A_apply(A, pr[2], t1)
    IN  IF a[1] # <<>> THEN <<RMul(RAdd(pr[1], r1), a[1][1]), a[2]>>
        ELSE <<RAdd(pr[1], r1), a[2]>>

\* MulAssign<(R,T)>: every stored (t,r) becomes (r*r1 [*r2], apply(t,t1)),
\* and the results are summed
MulOne(A, pr, r1, t1) ==
    LET a == A_apply(A, pr[2], t1)
    IN  IF a[1] # <<>> THEN <<RMul(RMul(pr[1], r1), a[1][1]), a[2]>>
        ELSE <<RMul(pr[1], r1), a[2]>>
mul_term(A, s, r1, t1) ==
    LET self == s
    IN  from_iter([i \in 1..Len(self) |-> MulOne(A, self[i], r1, t1)])

\* MulAssign<Self>: the sum over the terms (r,t) of rhs of self.clone()*(r,t)
RECURSIVE Flatten(_, _)
Flatten(ms, ho) ==
    IF ms = <<>> THEN <<>> ELSE into_iter(Head(ms), ho) \o Flatten(Tail(ms), ho)
\* MulAssign<Self> keeping, for each term, the last coefficient produced
mul_overwrites(A, m, rhs, ho) ==
    LET a == m
        b == rhs
        s == into_iter(b, ho)
        self == into_iter(a, ho)
    IN  extend_overwrites(zero, Flatten([i \in 1..Len(s) |-> mul_term(A, self, s[i][1], s[i][2])], ho))

mul(A, m, rhs, ho) ==
    LET a == m
        b == rhs
        s == into_iter(b, ho)
        self == into_iter(a, ho)
    IN  from_iter(Flatten([i \in 1..Len(s) |-> mul_term(A, self, s[i][1], s[i][2])], ho))

\* One::one and One::is_one, under AddRule
one == from_term(AddRule_one)

\* is_one testing the coefficient only
is_one_any_term(m) ==
    IF len(m) = 1
    THEN LET t == CHOOSE x \in DOMAIN m : TRUE
         IN  m[t] = ROne
    ELSE FALSE

is_one(m) ==
    IF len(m) = 1
    THEN LET t == CHOOSE x \in DOMAIN m : TRUE
         IN  m[t] = ROne /\ AddRule_is_one(t)
    ELSE FALSE

\* commutator computing self*rhs - self*rhs
commutator_unswapped(A, a, b, ho) ==
    LET ab == mul(A, a, b, ho)
    IN  insert(ab, into_iter(ab, ho), "neg")

\* ModuleString::commutator: self.clone()*rhs.clone() - rhs*self
ModuleString_commutator(A, a, b, ho) ==
    LET ab == mul(A, a, b, ho)
        ba == mul(A, b, a, ho)
    IN  insert(ab, into_iter(ba, ho), "neg")

\* repeated squaring: result = one(); base = self;
\* while n>0 { if n odd { result *= base }; base *= base; n >>= 1 }
RECURSIVE squaring(_, _, _, _, _)
squaring(A, result, base, n, ho) ==
    IF n = 0 THEN result
    ELSE LET r == IF n % 2 = 1 THEN mul(A, result, base, ho) ELSE result
             b == mul(A, base, base, ho)
         IN  squaring(A, r, b, n \div 2, ho)

\* Pow for ModuleString, under AddRule
ModuleString_pow(m, n, ho) == squaring("AddRule", one, m, n, ho)

(* ------------------------------- IterMut ------------------------------- *)
\* IterMut::next storing the pair handed back over the entry of its term
iter_next_overwrites(dest, nxt, iter) ==
    << IF nxt # <<>> /\ ~IsZero(nxt[1][1]) THEN MapInsert(dest, nxt[1][2], nxt[1][1]) ELSE dest,
       IF iter # <<>> THEN <<Head(iter)>> ELSE <<>>,
       IF iter # <<>> THEN Tail(iter) ELSE <<>> >>

\* one call of IterMut::next on (dest, next, iter): the new triple
iter_next(dest, nxt, iter) ==
    << IF nxt # <<>> THEN insert_term(dest, nxt[1], "id") ELSE dest,
       IF iter # <<>> THEN <<Head(iter)>> ELSE <<>>,
       IF iter # <<>> THEN Tail(iter) ELSE <<>> >>

\* Drop for IterMut: loop { if let None = self.next() {break;} }
RECURSIVE drop_loop(_, _, _)
drop_loop(dest, nxt, iter) ==
    LET n == iter_next(dest, nxt, iter)
    IN  IF n[2] = <<>> THEN n[1] ELSE drop_loop(n[1], n[2], n[3])

(* --------------- every public operation of a ModuleString -------------- *)
MaxBuilt == 2
\* the elements handed to the binary operations as right-hand sides
Built == {from_iter(s) : s \in SeqsUpTo(Pairs, MaxBuilt)} \cup {from_pair(pr[1], pr[2]) : pr \in Pairs}

\* the history of a finished iteration is forgotten by the next operation
IterReset ==
    /\ it_live' = FALSE
    /\ it_next' = <<>>
    /\ it_iter' = <<>>
    /\ it_done' = FALSE
    /\ yielded' = <<>>
    /\ unyielded' = <<>>
    /\ pre' = <<>>

InitModule ==
    /\ terms = zero
    /\ other = zero
    /\ op = "zero"
    /\ log = EmptyBag
    /\ ret = <<>>
    /\ IterIdle
    /\ WordIdle

\* An operation on the element; keep tells whether the right-hand side is
\* left in `other` for inspection.
\* n is the scalar handed over, where it is recorded.
OpArg(name, result, rhs, keep, n) ==
    /\ ~it_live
    /\ terms' = result
    /\ other' = IF keep THEN rhs ELSE zero
    /\ op' = name
    /\ arg' = n
    /\ ret' = <<>>
    /\ IterReset
    /\ UNCHANGED <<log, string, saved, trail>>

Op(name, result, rhs, keep) == OpArg(name, result, rhs, keep, 0)

Zero == Op("zero", zero, zero, FALSE)
FromTerm(t) == Op("from_term", from_term(t), zero, FALSE)
FromPair(r, t) == Op("from_pair", from_pair(r, t), zero, FALSE)
AddAssign(b, s, keep) == Op("add_assign", insert(terms, s, "id"), b, keep)
SubAssign(b, s, keep) == Op("sub_assign", insert(terms, s, "neg"), b, keep)
AddAssignPair(r, t) == Op("add_assign_pair", insert_term(terms, <<r, t>>, "id"), zero, FALSE)
SubAssignPair(r, t) == Op("sub_assign_pair", insert_term(terms, <<r, t>>, "neg"), zero, FALSE)
\* h tells whether the scalar is recorded
MulScalar(s, h) == OpArg("mul_scalar", mul_scalar(terms, s), zero, FALSE, IF h THEN s ELSE 0)
DivScalar(s, h) ==
    /\ s \in Units
    /\ OpArg("div_scalar", div_scalar(terms, s), zero, FALSE, IF h THEN s ELSE 0)
\* the products are computed along some order of iteration
MulPair(A, r, t, keep) ==
    \E res \in {mul_term(A, s, r, t) : s \in iters(terms)} :
        Op("mul_pair", res, from_pair(r, t), keep)
Mul(A, b, keep) ==
    \E res \in {mul(A, terms, b, ho) : ho \in HashOrders} : Op("mul", res, b, keep)
One == Op("one", one, zero, FALSE)
Commute(A, b, keep) ==
    \E res \in {ModuleString_commutator(A, terms, b, ho) : ho \in HashOrders} :
        Op("commutator", res, b, keep)

\* Pow::pow; h tells whether the exponent is recorded
ModPow(n, h) ==
    /\ ~it_live
    /\ \E res \in {ModuleString_pow(terms, n, ho) : ho \in HashOrders} : terms' = res
    /\ other' = zero
    /\ op' = "pow"
    /\ arg' = IF h THEN n ELSE 0
    /\ IterReset
    /\ UNCHANGED <<log, ret, string, saved, trail>>
Neg == Op("neg", neg(terms), zero, FALSE)

\* the lookups, through &self
Lookup(name, key, result) ==
    /\ ~it_live
    /\ ret' = result
    /\ arg' = key
    /\ op' = name
    /\ UNCHANGED <<terms, other, log, iterVars, string, saved, trail>>

Get(t) == Lookup("get", t, <<"Ok", get(terms, t)>>)
Index(t) == Lookup("index", t, index(terms, t))

\* The iterator operations; h tells whether the history of the iteration
\* (yielded, unyielded, pre) is recorded.

\* ModuleString::iter_mut: the storage is swapped out and staged
IterMut(s, h) ==
    /\ ~it_live
    /\ it_live' = TRUE
    /\ it_iter' = s
    /\ it_next' = <<>>
    /\ it_done' = FALSE
    /\ terms' = zero
    /\ other' = zero
    /\ op' = "iter_mut"
    /\ yielded' = <<>>
    /\ unyielded' = <<>>
    /\ pre' = IF h THEN <<terms>> ELSE <<>>
    /\ UNCHANGED <<log, ret, wordVars>>

\* IterMut::next
IterNext(h) ==
    /\ it_live
    /\ LET n == iter_next(terms, it_next, it_iter)
       IN  /\ terms' = n[1]
           /\ it_next' = n[2]
           /\ it_iter' = n[3]
           /\ it_done' = (n[2] = <<>>)
           /\ yielded' = IF h /\ n[2] # <<>> THEN Append(yielded, n[2][1]) ELSE yielded
    /\ op' = "next"
    /\ UNCHANGED <<other, log, ret, it_live, unyielded, pre, wordVars>>

\* The caller writes through the references (&mut R, &mut T) it was handed.
\* They point into IterMut.next, so a write changes the pair held there; a
\* caller writes only while the iterator that handed them out is alive.
Mutate(r, t, h) ==
    /\ it_live
    /\ it_next # <<>>
    /\ it_next[1] # <<r, t>>
    /\ it_next' = << <<r, t>> >>
    /\ yielded' = IF h THEN [yielded EXCEPT ![Len(yielded)] = <<r, t>>] ELSE yielded
    /\ pre' = <<>>
    /\ op' = "mutate"
    /\ UNCHANGED <<terms, other, log, ret, it_live, it_iter, it_done, unyielded, wordVars>>

\* Drop for IterMut
DropIter(h) ==
    /\ it_live
    /\ terms' = drop_loop(terms, it_next, it_iter)
    /\ unyielded' = IF h THEN it_iter ELSE <<>>
    /\ it_live' = FALSE
    /\ it_next' = <<>>
    /\ it_iter' = <<>>
    /\ op' = "drop"
    /\ UNCHANGED <<other, log, ret, it_done, yielded, pre, wordVars>>

NextModule ==
    \/ Zero
    \/ \E t \in Terms : FromTerm(t)
    \/ \E r \in Ring, t \in Terms : FromPair(r, t)
    \/ \E b \in Built \cup {terms} : \E s \in iters(b) : AddAssign(b, s, FALSE)
    \/ \E b \in Built \cup {terms} : \E s \in iters(b) : SubAssign(b, s, FALSE)
    \/ \E r \in Ring, t \in Terms : AddAssignPair(r, t)
    \/ \E r \in Ring, t \in Terms : SubAssignPair(r, t)
    \/ \E s \in Ring : MulScalar(s, FALSE)
    \/ \E s \in Ring : DivScalar(s, FALSE)
    \/ \E r \in Ring, t \in Terms : MulPair("AddRule", r, t, FALSE)
    \/ \E b \in Built \cup {terms} : Mul("AddRule", b, FALSE)
    \/ Neg
    \/ One
    \/ \E t \in Terms : Get(t)
    \/ \E t \in Terms : Index(t)
    \/ \E b \in Built \cup {terms} : Commute("AddRule", b, FALSE)
    \/ \E n \in 0..MaxPow : ModPow(n, FALSE)
    \/ \E s \in iters(terms) : IterMut(s, FALSE)
    \/ IterNext(FALSE)
    \/ \E r \in Ring, t \in Terms : Mutate(r, t, FALSE)
    \/ DropIter(FALSE)

SpecModule == InitModule /\ [][NextModule]_vars

(* ----------------- iter_mut on elements built from pairs --------------- *)
NextIter ==
    \/ \E r \in Ring, t \in Terms : FromPair(r, t)
    \/ \E r \in Ring, t \in Terms : AddAssignPair(r, t)
    \/ \E s \in iters(terms) : IterMut(s, TRUE)
    \/ IterNext(TRUE)
    \/ \E r \in Ring, t \in Terms : Mutate(r, t, TRUE)
    \/ DropIter(TRUE)

SpecIter == InitModule /\ [][NextIter]_vars

(* ------------- subtraction on elements built from pairs ---------------- *)
NextSub ==
    \/ \E r \in Ring, t \in Terms : FromPair(r, t)
    \/ \E r \in Ring, t \in Terms : AddAssignPair(r, t)
    \/ \E b \in Built \cup {terms} : \E s \in iters(b) : AddAssign(b, s, TRUE)
    \/ \E b \in Built \cup {terms} : \E s \in iters(b) : SubAssign(b, s, TRUE)

SpecSub == InitModule /\ [][NextSub]_vars

\* m holds exactly the merge-sum of the pairs of s
MergedAs(m, s) ==
    \A t \in Terms :
        /\ get(m, t) = SumFor(s, t)
        /\ (t \in DOMAIN m) <=> (SumFor(s, t) # 0)

(* C2: no element reachable by the public operations stores an entry whose *)
(* coefficient is the ring zero.                                           *)
NoZeroStored == \A t \in DOMAIN terms : ~IsZero(terms[t])

(* C4: once an iter_mut() iterator has been consumed to its end, the       *)
(* element is the merge-sum of the yielded pairs as the caller left them:  *)
(* pairs renamed to one term are one entry holding the sum (two            *)
(* coefficients 1 renamed to a give {a:2}), a zero sum has no entry.       *)
IterMutMerges ==
    it_done =>
        /\ MergedAs(terms, yielded)
        /\ \A a \in Terms :
              yielded = << <<ROne, a>>, <<ROne, a>> >> => terms = from_pair(RLit(2), a)

IterMutMergesWitness ==
    /\ it_done
    /\ it_live
    /\ \E a \in Terms :
          /\ yielded = << <<ROne, a>>, <<ROne, a>> >>
          /\ terms = from_pair(RLit(2), a)

(* C5: once an abandoned iter_mut() iterator is dropped, the element is    *)
(* the merge-sum of the yielded pairs as mutated and of the staged pairs   *)
(* never yielded, and without any mutation it equals its value before      *)
(* iter_mut().                                                             *)
DropFlushes ==
    op = "drop" =>
        /\ MergedAs(terms, yielded \o unyielded)
        /\ pre # <<>> => terms = pre[1]

(* C6: -p stores each term of p with the negated coefficient, keeping the  *)
(* entries whose negated coefficient is non-zero, so that                  *)
(* (-p).get(t) = -(p.get(t)) for every term t.                             *)
NegNegates ==
    [][op' = "neg" =>
          /\ \A t \in Terms : get(terms', t) = RNeg(get(terms, t))
          /\ DOMAIN terms' = {t \in DOMAIN terms : ~IsZero(RNeg(terms[t]))}]_vars

(* C7: a - b has get(t) = a.get(t) - b.get(t) for every term t, with no    *)
(* entry where the difference is zero; a - a is zero().                    *)
SubSubtracts ==
    [][op' = "sub_assign" =>
          /\ \A t \in Terms :
                /\ get(terms', t) = RAdd(get(terms, t), RNeg(get(other', t)))
                /\ (t \in DOMAIN terms') <=> (RAdd(get(terms, t), RNeg(get(other', t))) # 0)
          /\ other' = terms => terms' = zero]_vars

(* ======================= MonoidalString: words ========================= *)
MaxWord == 3
MaxExp == 2

Bases == {"x", "y"}
\* FreeInv<T>: Id(x) is <<"Id", x>>, Inv(x) is <<"Inv", x>>
InvLetters == {"Id", "Inv"} \X Bases
\* FreePow<C,P>(c, p) is <<c, p>>
Exps == (0 - MaxExp)..MaxExp
PowLetters == Bases \X Exps

Last(w) == w[Len(w)]
Front(w) == SubSeq(w, 1, Len(w) - 1)

is_inv(c) == c[1] = "Inv"
is_id(c) == c[1] = "Id"

\* MonoidRule<FreeInv<T>> for InvRule
InvRule_apply(w, letter) ==
    IF w # <<>> /\ (is_inv(letter) # is_inv(Last(w)))
    THEN Front(w)
    ELSE Append(w, letter)

\* Inv for FreeInv<T>
FreeInv_inv(c) == IF c[1] = "Id" THEN <<"Inv", c[2]>> ELSE <<"Id", c[2]>>

\* PowRule pushing the merged letter back whatever its exponent
PowRule_apply_keeps_zero(w, letter) ==
    IF w # <<>> /\ Last(w)[1] = letter[1]
    THEN Append(Front(w), <<letter[1], Last(w)[2] + letter[2]>>)
    ELSE Append(w, letter)

\* MonoidRule<FreePow<C,P>> for PowRule
PowRule_apply(w, letter) ==
    IF w # <<>> /\ Last(w)[1] = letter[1]
    THEN LET last == <<letter[1], Last(w)[2] + letter[2]>>
         IN  IF last[2] # 0 THEN Append(Front(w), last) ELSE Front(w)
    ELSE Append(w, letter)

\* Inv for FreePow<C,P>
FreePow_inv(c) == <<c[1], 0 - c[2]>>

\* MonoidRule<C> for (): apply pushes the letter
Unit_apply(w, letter) == Append(w, letter)

\* apply_many appending the left word to the right one
Unit_apply_many_reversed(w1, w2) == w2 \o w1

\* MonoidRule<C> for (): apply_many is Vec::append
Unit_apply_many(w1, w2) == w1 \o w2

\* MonoidRule<C> for (): apply_iter is Vec::extend
Unit_apply_iter(w, letters) == w \o letters

\* the rule R of a word, selected by name; "UnitRule" is the rule ()
rule_apply(R, w, letter) ==
    IF R = "InvRule" THEN InvRule_apply(w, letter)
    ELSE IF R = "UnitRule" THEN Unit_apply(w, letter)
    ELSE PowRule_apply(w, letter)
rule_invert(R, letter) ==
    IF R = "InvRule" THEN FreeInv_inv(letter) ELSE FreePow_inv(letter)

\* MonoidRule::apply_iter and apply_many, the default bodies
RECURSIVE apply_iter(_, _, _)
apply_iter(R, w, letters) ==
    IF letters = <<>> THEN w
    ELSE apply_iter(R, rule_apply(R, w, Head(letters)), Tail(letters))
apply_many(R, w1, w2) == apply_iter(R, w1, w2)

\* MonoidalString::invert
Reversed(w) == LET s == w IN [i \in 1..Len(s) |-> s[Len(s) + 1 - i]]

\* invert without .rev()
invert_unreversed(R, w) ==
    LET s == w
    IN  apply_iter(R, <<>>, [i \in 1..Len(s) |-> rule_invert(R, s[i])])

\* invert without .map(|c| R::invert(c))
invert_unmapped(R, w) == apply_iter(R, <<>>, Reversed(w))

invert(R, w) ==
    LET s == Reversed(w)
    IN  apply_iter(R, <<>>, [i \in 1..Len(s) |-> rule_invert(R, s[i])])

\* every exponent of a word of FreePow letters is representable
InRange(R, w) == R = "PowRule" => \A i \in 1..Len(w) : w[i][2] \in Exps

InitWord ==
    /\ terms = zero
    /\ other = zero
    /\ op = "one"
    /\ log = EmptyBag
    /\ ret = <<>>
    /\ IterIdle
    /\ WordIdle

\* the last two letter appends, each as <<word before, letter>>
Trailed(w, c) ==
    IF Len(trail) < 2 THEN Append(trail, <<w, c>>) ELSE <<trail[2], <<w, c>> >>

\* the words kept: at most MaxWord letters, every exponent representable
Bounded(w) ==
    /\ Len(w) <= MaxWord
    /\ \A i \in 1..Len(w) : w[i][1] \in Bases => w[i][2] \in Exps

WordOp(name, result) ==
    /\ Bounded(result)
    /\ string' = result
    /\ op' = name
    /\ trail' = <<>>
    /\ arg' = 0
    /\ UNCHANGED <<saved, modVars, iterVars>>

\* Index: &self.string[i], the Vec panicking on a position out of range;
\* positions count from 0
word_index(w, i) == IF i \in 0..(Len(w) - 1) THEN <<"Ok", w[i + 1]>> ELSE <<"panic">>

\* One::one and From<C>
WordOne == WordOp("one", <<>>)
WordFrom(c) == WordOp("from", <<c>>)

\* MulAssign<C>: apply_one
MulLetter(R, c) ==
    /\ LET w == rule_apply(R, string, c)
       IN  /\ Len(w) <= MaxWord
           /\ InRange(R, w)
           /\ string' = w
    /\ trail' = Trailed(string, c)
    /\ op' = "mul_letter"
    /\ UNCHANGED <<saved, arg, modVars, iterVars>>

\* DivAssign<C>: *self *= M::invert(rhs)
DivLetter(R, c) ==
    /\ LET w == rule_apply(R, string, rule_invert(R, c))
       IN  /\ Len(w) <= MaxWord
           /\ InRange(R, w)
           /\ string' = w
    /\ trail' = Trailed(string, rule_invert(R, c))
    /\ op' = "div_letter"
    /\ UNCHANGED <<saved, arg, modVars, iterVars>>

\* Clone
WordClone ==
    /\ saved' = string
    /\ op' = "clone"
    /\ trail' = <<>>
    /\ arg' = 0
    /\ UNCHANGED <<string, modVars, iterVars>>

\* MulAssign<Self>, DivAssign<Self> and Inv, with the clone as right-hand side
MulWord(R) == WordOp("mul", apply_many(R, string, saved))
DivWord(R) == WordOp("div", apply_many(R, string, invert(R, saved)))
WordInv(R) == WordOp("inv", invert(R, string))

(* ------------------- words under InvRule (FreeGroup) ------------------- *)
NextInvWord ==
    \/ WordOne
    \/ \E c \in InvLetters : WordFrom(c)
    \/ \E c \in InvLetters : MulLetter("InvRule", c)
    \/ \E c \in InvLetters : DivLetter("InvRule", c)
    \/ WordClone
    \/ MulWord("InvRule")
    \/ DivWord("InvRule")
    \/ WordInv("InvRule")

SpecInvWord == InitWord /\ [][NextInvWord]_vars

(* ----------------- words under PowRule (FreePowMonoid) ----------------- *)
NextPowWord ==
    \/ WordOne
    \/ \E c \in PowLetters : WordFrom(c)
    \/ \E c \in PowLetters : MulLetter("PowRule", c)

SpecPowWord == InitWord /\ [][NextPowWord]_vars

(* C8: under InvRule, multiplying a word w by a letter x and then by the   *)
(* inverse of x gives w again.                                             *)
CancelRight ==
    (Len(trail) = 2 /\ trail[2][2] = FreeInv_inv(trail[1][2])) => string = trail[1][1]

(* C9: under InvRule, appending a letter removes the word's last letter    *)
(* exactly when that letter has the opposite tag and the same base, and    *)
(* pushes the letter otherwise: x then inverse-of-x is the empty word, x   *)
(* then inverse-of-y a two-letter word.                                    *)
CancelsOnSameBase ==
    trail # <<>> =>
        LET w == Last(trail)[1]
            c == Last(trail)[2]
        IN  string = IF w # <<>> /\ Last(w)[1] # c[1] /\ Last(w)[2] = c[2]
                     THEN Front(w)
                     ELSE Append(w, c)

(* C10: under PowRule, appending (b,p) and then (b,q) to a word whose last *)
(* letter has another base adds the one letter (b,p+q) when p+q is         *)
(* non-zero and no letter when it is zero; a letter whose base differs     *)
(* from the last letter's base is pushed unchanged.                        *)
ExponentsCompress ==
    /\ (/\ Len(trail) = 2
        /\ trail[1][2][1] = trail[2][2][1]
        /\ (trail[1][1] = <<>> \/ Last(trail[1][1])[1] # trail[1][2][1]))
       => string = IF trail[1][2][2] + trail[2][2][2] # 0
                   THEN Append(trail[1][1], <<trail[1][2][1], trail[1][2][2] + trail[2][2][2]>>)
                   ELSE trail[1][1]
    /\ (trail # <<>> /\ Last(trail)[1] # <<>> /\ Last(Last(trail)[1])[1] # Last(trail)[2][1])
       => string = Append(Last(trail)[1], Last(trail)[2])

ExponentsCompressWitness ==
    /\ Len(trail) = 2
    /\ trail[1][1] # <<>>
    /\ trail[1][2][1] = trail[2][2][1]
    /\ Last(trail[1][1])[1] # trail[1][2][1]
    /\ trail[1][2][2] # 0
    /\ trail[1][2][2] + trail[2][2][2] = 0
    /\ string = trail[1][1]

(* ------------- words under PowRule: the derived operations ------------- *)

\* MulAssign<Self> on words
wmul(R, a, b) == apply_many(R, a, b)

\* MonoidalString::commutator: self.clone().inv()*rhs.clone()*self*rhs
commutator(R, a, b) == wmul(R, wmul(R, wmul(R, invert(R, a), b), a), b)

\* MonoidalString::add_commutator: -self.clone() - rhs.clone() + self + rhs
add_commutator(R, a, b) == wmul(R, wmul(R, wmul(R, invert(R, a), invert(R, b)), a), b)

\* repeated squaring: result = one(); base = self;
\* while n>0 { if n odd { result *= base }; base *= base; n >>= 1 }
RECURSIVE word_squaring(_, _, _, _)
word_squaring(R, result, base, n) ==
    IF n = 0 THEN result
    ELSE LET r == IF n % 2 = 1 THEN wmul(R, result, base) ELSE result
             b == wmul(R, base, base)
         IN  word_squaring(R, r, b, n \div 2)

\* Pow for MonoidalString under an invertible rule: the magnitude by
\* repeated squaring, inverted when the exponent is negative
word_pow(R, w, n) ==
    IF n < 0 THEN invert(R, word_squaring(R, <<>>, w, 0 - n))
    ELSE word_squaring(R, <<>>, w, n)

\* From<FreeInv<C>> for FreePow<C,P>: Id(x) is (x,1), Inv(x) is (x,-1)
from_inv(c) == IF c[1] = "Id" THEN <<c[2], 1>> ELSE <<c[2], 0 - 1>>

\* the words handed to the binary operations as right-hand sides
BuiltWords == {<<>>} \cup {<<from_inv(c)>> : c \in InvLetters}

\* A binary operation on the word; keep tells whether the right-hand side
\* is left in `saved` for inspection.
WordBin(name, result, rhs, keep) ==
    /\ Bounded(string)
    /\ Bounded(result)
    /\ string' = result
    /\ saved' = IF keep THEN rhs ELSE <<>>
    /\ op' = name
    /\ trail' = <<>>
    /\ arg' = 0
    /\ UNCHANGED <<modVars, iterVars>>

MulBy(R, b, keep) == LET w == wmul(R, string, b) IN WordBin("mul", w, b, keep)
DivBy(R, b, keep) == LET w == wmul(R, string, invert(R, b)) IN WordBin("div", w, b, keep)
Commutator(R, b) == LET w == commutator(R, string, b) IN WordBin("commutator", w, b, TRUE)
AddCommutator(R, b) == LET w == add_commutator(R, string, b) IN WordBin("add_commutator", w, b, TRUE)

\* Index<usize>
WordIndex(i) ==
    /\ ret' = word_index(string, i)
    /\ arg' = i
    /\ op' = "word_index"
    /\ UNCHANGED <<terms, other, log, iterVars, string, saved, trail>>

\* Pow::pow on a word kept; the power itself may be longer
WordPow(R, n) ==
    /\ Bounded(string)
    /\ LET w == word_pow(R, string, n) IN string' = w
    /\ arg' = n
    /\ op' = "word_pow"
    /\ trail' = <<>>
    /\ UNCHANGED <<saved, modVars, iterVars>>

(* --------- words under PowRule: commutators (FreePowMonoid) ------------ *)
NextPowGroup ==
    \/ WordOne
    \/ \E c \in PowLetters : WordFrom(c)
    \/ \E b \in BuiltWords \cup {string} : MulBy("PowRule", b, TRUE)
    \/ \E b \in BuiltWords \cup {string} : Commutator("PowRule", b)
    \/ \E b \in BuiltWords \cup {string} : AddCommutator("PowRule", b)

SpecPowGroup == InitWord /\ [][NextPowGroup]_vars

(* ------------ words under PowRule: powers (FreePowMonoid) -------------- *)
NextPowInv ==
    \/ WordOne
    \/ \E c \in PowLetters : WordFrom(c)
    \/ \E b \in BuiltWords : MulBy("PowRule", b, FALSE)
    \/ \E n \in (0 - MaxPow)..MaxPow : WordPow("PowRule", n)

SpecPowInv == InitWord /\ [][NextPowInv]_vars

\* canonical form under PowRule: no exponent zero, no two adjacent letters
\* of one base
Canonical(w) ==
    /\ \A i \in 1..Len(w) : w[i][2] # 0
    /\ \A i \in 1..(Len(w) - 1) : w[i][1] # w[i + 1][1]

(* C11: a.commutator(b) is inverse(a) * inverse(b) * a * b and             *)
(* a.add_commutator(b) is -a - b + a + b; a.commutator(a) is the empty     *)
(* word for every canonical a.                                             *)
CommutatorLaw ==
    [][/\ op' = "commutator" =>
             /\ string' = wmul("PowRule", wmul("PowRule", wmul("PowRule",
                               invert("PowRule", string), invert("PowRule", saved')),
                               string), saved')
             /\ (saved' = string /\ Canonical(string)) => string' = <<>>
       /\ op' = "add_commutator" =>
             string' = wmul("PowRule", wmul("PowRule", wmul("PowRule",
                            invert("PowRule", string), invert("PowRule", saved')),
                            string), saved')]_vars

(* ------------- powers of module elements and of words ------------------ *)
\* a run works on one structure at a time: on the element while the word is
\* empty, on the word while the element is zero()
NextPower ==
    \/ /\ string = <<>>
       /\ \/ \E r \in Ring, t \in Terms : FromPair(r, t)
          \/ \E r \in Ring, t \in Terms : AddAssignPair(r, t)
          \/ Zero
          \/ \E n \in 0..MaxPow : ModPow(n, TRUE)
    \/ /\ terms = zero
       /\ \/ WordOne
          \/ \E c \in PowLetters : WordFrom(c)
          \/ \E b \in BuiltWords : MulBy("PowRule", b, FALSE)
          \/ \E n \in 0..MaxPow : WordPow("PowRule", n)

SpecPower == InitModule /\ [][NextPower]_vars

\* the terms in increasing order, one of the orders of iteration
NaturalOrder == [i \in 1..TermMod |-> i - 1]

(* C12: e.pow(a+b) equals e.pow(a) * e.pow(b) for every module element e   *)
(* and every canonical word e and all non-negative a and b, and e.pow(0)   *)
(* is one().                                                               *)
PowerLaw ==
    [][/\ op' = "pow" =>
             /\ \A a \in 0..arg' :
                   terms' = mul("AddRule", ModuleString_pow(terms, a, NaturalOrder),
                                ModuleString_pow(terms, arg' - a, NaturalOrder), NaturalOrder)
             /\ arg' = 0 => terms' = one
       /\ (op' = "word_pow" /\ Canonical(string)) =>
             /\ \A a \in 0..arg' :
                   string' = wmul("PowRule", word_pow("PowRule", string, a),
                                  word_pow("PowRule", string, arg' - a))
             /\ arg' = 0 => string' = <<>>]_vars

PowerLawWitness ==
    /\ op = "word_pow"
    /\ arg = 3
    /\ Len(string) = 6
    /\ Canonical(string)

(* C13: for n > 0, w.pow(-n) is the inverse of w.pow(n), and for a         *)
(* canonical w the product w.pow(n) * w.pow(-n) is the empty word.         *)
NegativePower ==
    [][(op' = "word_pow" /\ arg' < 0) =>
          LET p == word_pow("PowRule", string, 0 - arg')
          IN  /\ string' = invert("PowRule", p)
              /\ Canonical(string) => wmul("PowRule", p, string') = <<>>]_vars

NegativePowerWitness ==
    /\ op = "word_pow"
    /\ arg < 0 - 1
    /\ Len(string) >= 4
    /\ Canonical(string)

(* -------- module elements under MulRule, terms that do not commute ----- *)
\* the elements of one entry
Monomials == {from_pair(pr[1], pr[2]) : pr \in Pairs}

NextMonoidRing ==
    \/ \E r \in Ring, t \in Terms : FromPair(r, t)
    \/ \E r \in Ring, t \in Terms : AddAssignPair(r, t)
    \/ \E b \in Monomials \cup {terms} : Mul("MulRule", b, TRUE)
    \/ \E b \in Monomials \cup {terms} : Commute("MulRule", b, TRUE)

SpecMonoidRing == InitModule /\ [][NextMonoidRing]_vars

\* the coefficient of u in the product a*b under the rule A: the ring sum of
\* a(t1)*b(t2) [* the rule's coefficient] over the t1, t2 with t1*t2 = u
RECURSIVE ConvUpTo(_, _, _, _, _)
ConvUpTo(A, a, b, u, k) ==
    IF k = 0 THEN 0
    ELSE LET t1 == (k - 1) \div TermMod
             t2 == (k - 1) % TermMod
             ap == A_apply(A, t1, t2)
             c  == IF ap[1] = <<>> THEN ROne ELSE ap[1][1]
         IN  RAdd(ConvUpTo(A, a, b, u, k - 1),
                  IF ap[2] = u THEN RMul(RMul(get(a, t1), get(b, t2)), c) ELSE 0)
Conv(A, a, b, u) == ConvUpTo(A, a, b, u, TermMod * TermMod)

(* C14: p.commutator(q) is p*q - q*p: its coefficient of every term u is   *)
(* the coefficient of u in p*q minus that in q*p, with no entry where the  *)
(* difference is zero; p.commutator(p.clone()) is zero().                  *)
CommutatorIsDifference ==
    [][op' = "commutator" =>
          /\ \A u \in Terms :
                LET d == RAdd(Conv("MulRule", terms, other', u),
                              RNeg(Conv("MulRule", other', terms, u)))
                IN  /\ get(terms', u) = d
                    /\ (u \in DOMAIN terms') <=> (d # 0)
          /\ other' = terms => (terms' = zero /\ is_zero(terms'))]_vars

CommutatorIsDifferenceWitness ==
    /\ op = "commutator"
    /\ len(terms) = 2
    /\ len(other) = 1

(* ------------- lookups in module elements and in words ----------------- *)
NextLookup ==
    \/ /\ string = <<>>
       /\ \/ \E r \in Ring, t \in Terms : FromPair(r, t)
          \/ \E r \in Ring, t \in Terms : AddAssignPair(r, t)
          \/ \E t \in Terms : Get(t)
          \/ \E t \in Terms : Index(t)
    \/ /\ terms = zero
       /\ \/ \E c \in PowLetters : WordFrom(c)
          \/ \E b \in BuiltWords : MulBy("PowRule", b, FALSE)
          \/ \E i \in 0..MaxWord : WordIndex(i)

SpecLookup == InitModule /\ [][NextLookup]_vars

(* C15: get(t) never fails, returning the stored coefficient of t or the   *)
(* ring zero when t has no entry; indexing by a term with no entry, or a   *)
(* word by a position out of range, fails; no lookup changes the element.  *)
LookupTotal ==
    [][/\ op' = "get" =>
             /\ ret' = <<"Ok", IF arg' \in DOMAIN terms THEN terms[arg'] ELSE 0>>
             /\ terms' = terms
       /\ op' = "index" =>
             /\ arg' \notin DOMAIN terms => ret' = <<"panic">>
             /\ arg' \in DOMAIN terms => ret' = <<"Ok", terms[arg']>>
             /\ terms' = terms
       /\ op' = "word_index" =>
             /\ arg' >= Len(string) => ret' = <<"panic">>
             /\ arg' < Len(string) => ret' = <<"Ok", string[arg' + 1]>>
             /\ string' = string]_vars

LookupTotalWitness ==
    /\ op = "get"
    /\ terms # zero
    /\ arg \notin DOMAIN terms
    /\ ret = <<"Ok", 0>>

(* ------------------- scaling by a value of the ring -------------------- *)
NextScalar ==
    \/ \E r \in Ring, t \in Terms : FromPair(r, t)
    \/ \E r \in Ring, t \in Terms : AddAssignPair(r, t)
    \/ \E r \in Ring, t \in Terms : SubAssignPair(r, t)
    \/ \E s \in Ring : MulScalar(s, TRUE)
    \/ \E s \in Ring : DivScalar(s, TRUE)

SpecScalar == InitModule /\ [][NextScalar]_vars

Binomials == {from_iter(<< <<ROne, AddRule_one>>, pr >>) : pr \in Pairs}

NextProduct ==
    \/ Zero
    \/ \E r \in Ring, t \in Terms : FromPair(r, t)
    \/ \E r \in Ring, t \in Terms : AddAssignPair(r, t)
    \/ \E r \in Ring, t \in Terms : MulPair("AddRule", r, t, TRUE)
    \/ \E b \in Binomials \cup {terms} : Mul("AddRule", b, TRUE)
    \/ One

SpecProduct == InitModule /\ [][NextProduct]_vars

(* C17: the product a*b has for every term u the coefficient: sum of       *)
(* r1*r2 over the stored (t1,r1) of a and (t2,r2) of b whose terms         *)
(* multiply to u, and no entry where that sum is zero; a *= (r1,t1) is     *)
(* the case b = {t1:r1}; a*zero() and zero()*a are zero().                 *)
ProductDistributes ==
    [][(op' = "mul" \/ op' = "mul_pair") =>
          /\ \A u \in Terms :
                LET c == Conv("AddRule", terms, other', u)
                IN  /\ get(terms', u) = c
                    /\ (u \in DOMAIN terms') <=> (c # 0)
          /\ (terms = zero \/ other' = zero) => terms' = zero]_vars

ProductDistributesWitness ==
    /\ op = "mul"
    /\ len(other) = 2
    /\ len(terms) = 1
    /\ \E t \in DOMAIN terms : terms[t] = RLit(2)

(* --------------------------- the unit element -------------------------- *)
\* the element with the one entry (AddRule's unit, the ring one)
UnitElement == MapInsert(zero, AddRule_one, ROne)

\* C18: under the unital AddRule, one() is the element with exactly one
\* entry, the rule's unit term with the ring one as coefficient; is_one
\* holds exactly of that element, so it holds of one() and fails for zero()
\* and for every element of two or more entries.
OneIsUnit ==
    /\ op = "one" => (terms = UnitElement /\ len(terms) = 1 /\ is_one(terms))
    /\ is_one(terms) <=> (terms = UnitElement)
    /\ is_one(other) <=> (other = UnitElement)
    /\ (terms = zero \/ len(terms) >= 2) => ~is_one(terms)
    /\ is_one(one) /\ ~is_one(zero)

\* C18: one() has just been built, and is_one holds of it
OneIsUnitWitness == op = "one" /\ len(terms) = 1 /\ is_one(terms)

(* ------------------------- the number of terms ------------------------- *)
\* AddAssign<(R,T)>, the pair left in `other`
AddAssignPairKept(r, t) ==
    Op("add_assign_pair", insert_term(terms, <<r, t>>, "id"), from_pair(r, t), TRUE)

NextLen ==
    \/ Zero
    \/ One
    \/ \E r \in Ring, t \in Terms : FromPair(r, t)
    \/ \E r \in Ring, t \in Terms : AddAssignPairKept(r, t)
    \/ \E r \in Ring, t \in Terms : SubAssignPair(r, t)
    \/ \E s \in Ring : MulScalar(s, FALSE)
    \/ \E r \in Ring, t \in Terms : MulPair("AddRule", r, t, FALSE)
    \/ Neg

SpecLen == InitModule /\ [][NextLen]_vars

\* len() == 0 exactly of the element equal to zero(), and exactly when
\* is_zero()
LenZero(m) ==
    /\ (len(m) = 0) <=> (m = zero)
    /\ is_zero(m) <=> (m = zero)

\* C19: len() is 0 exactly when the element equals zero() and exactly when
\* is_zero(); adding a pair on a term the element holds does not increase
\* len(), and adding a pair of non-zero coefficient on a term it does not
\* hold increases len() by one.
LenCountsTerms ==
    [][/\ LenZero(terms) /\ LenZero(terms')
       /\ op' = "add_assign_pair" =>
             LET t == CHOOSE x \in DOMAIN other' : TRUE
                 r == other'[t]
             IN  /\ t \in DOMAIN terms => len(terms') <= len(terms)
                 /\ (t \notin DOMAIN terms /\ r # 0) =>
                        len(terms') = len(terms) + 1]_vars

\* C19: a pair of non-zero coefficient has been added and is the whole element
LenCountsTermsWitness ==
    /\ op = "add_assign_pair"
    /\ len(terms) = 1
    /\ terms = other
    /\ \E t \in DOMAIN terms : terms[t] # 0

(* ------------------- inverses of words, under both rules ---------------- *)
\* the rule of a word is fixed by the type of its letters; the empty word
\* is a word of either type
Typed(R, w) ==
    IF w = <<>> THEN TRUE
    ELSE (R = "InvRule") <=> (w[1][1] \in {"Id", "Inv"})

\* the one-letter words handed to the product as right-hand sides
Generators(R) ==
    IF R = "InvRule" THEN {<<c>> : c \in InvLetters} ELSE {<<from_inv(c)>> : c \in InvLetters}

\* A run works on words of one type at a time: a binary operation takes a
\* right-hand side of the type of the word.  The words are built from one()
\* by products with one-letter words.
NextInverse ==
    \/ WordOne
    \/ \E R \in {"InvRule", "PowRule"} : \E b \in Generators(R) :
          Typed(R, string) /\ MulBy(R, b, FALSE)
    \/ WordClone
    \/ \E R \in {"InvRule", "PowRule"} :
          Typed(R, string) /\ Typed(R, saved) /\ MulWord(R)
    \/ \E R \in {"InvRule", "PowRule"} :
          Typed(R, string) /\ Typed(R, saved) /\ DivWord(R)
    \/ \E R \in {"InvRule", "PowRule"} : Typed(R, string) /\ WordInv(R)

SpecInverse == InitWord /\ [][NextInverse]_vars

\* the fold of the rule's apply, from the empty word, over the inverted
\* letters of w at the positions Len(w) down to n
RECURSIVE InverseFold(_, _, _)
InverseFold(R, w, n) ==
    IF n > Len(w) THEN <<>>
    ELSE rule_apply(R, InverseFold(R, w, n + 1), rule_invert(R, w[n]))

\* no letter next to its own inverse
CanonicalInv(w) ==
    \A i \in 1..(Len(w) - 1) : ~(w[i][2] = w[i + 1][2] /\ w[i][1] # w[i + 1][1])

CanonicalFor(R, w) == IF R = "InvRule" THEN CanonicalInv(w) ELSE Canonical(w)

\* C20: the inverse of a word is the fold of the rule's apply, from the
\* empty word, over its letters in reverse order, each inverted; for a
\* canonical w under PowRule or InvRule, w * inverse(w) and inverse(w) * w
\* are the empty word and inverse(inverse(w)) is w.
InverseLaw ==
    [][LET R == IF Typed("InvRule", string) /\ (string # <<>> \/ Typed("InvRule", saved))
                THEN "InvRule" ELSE "PowRule"
           same == Typed(R, string) /\ Typed(R, saved)
       IN  /\ op' = "inv" => string' = InverseFold(R, string, 1)
           /\ (op' = "inv" /\ same /\ CanonicalFor(R, saved)
                  /\ string = invert(R, saved)) => string' = saved
           /\ (op' = "div" /\ saved = string /\ CanonicalFor(R, string)) =>
                  string' = <<>>
           /\ (op' = "mul" /\ saved' # <<>> /\ same /\ CanonicalFor(R, saved)
                  /\ string = invert(R, saved)) => string' = <<>>]_vars

\* C20: a word of two letters has been divided by itself
InverseLawWitness == op = "div" /\ string = <<>> /\ Len(saved) = 2

(* ----------------- words under the rule () (FreeMonoid) ---------------- *)
\* the words and streams of letters handed over as right-hand sides
FreeWords == SeqsUpTo(InvLetters, MaxBuilt)

\* MulAssign<Self>: apply, which calls the rule's own apply_many
MulFree(b) == WordBin("mul", Unit_apply_many(string, b), b, TRUE)

\* Product<C>: the rule's own apply_iter, from the empty Vec
ProductFree(s) == WordBin("product", Unit_apply_iter(<<>>, s), s, TRUE)

\* the rule's apply_iter handed the word's letters and a stream
ExtendFree(s) == WordBin("apply_iter", Unit_apply_iter(string, s), s, TRUE)

NextFree ==
    \/ WordOne
    \/ \E c \in InvLetters : WordFrom(c)
    \/ \E c \in InvLetters : MulLetter("UnitRule", c)
    \/ \E b \in FreeWords \cup {string} : MulFree(b)
    \/ \E s \in FreeWords : ProductFree(s)
    \/ \E s \in FreeWords : ExtendFree(s)

SpecFree == InitWord /\ [][NextFree]_vars

\* w is the word a followed by every letter of b, unchanged and in order
Followed(w, a, b) ==
    /\ Len(w) = Len(a) + Len(b)
    /\ \A i \in 1..Len(a) : w[i] = a[i]
    /\ \A j \in 1..Len(b) : w[Len(a) + j] = b[j]

\* C21: under the rule (), a word or a stream of letters appended through
\* the rule's own apply_many or apply_iter gives the sequence the default
\* gives, the fold of the one-letter apply over the appended letters in
\* order: the left word followed by every appended letter unchanged, of
\* length the sum of the two lengths, no letter removed.
ConcatenationLaw ==
    [][/\ op' = "mul" =>
            /\ string' = apply_many("UnitRule", string, saved')
            /\ Followed(string', string, saved')
       /\ op' = "apply_iter" =>
            /\ string' = apply_iter("UnitRule", string, saved')
            /\ Followed(string', string, saved')
       /\ op' = "product" =>
            /\ string' = apply_iter("UnitRule", <<>>, saved')
            /\ Followed(string', <<>>, saved')
       /\ op' = "mul_letter" =>
            /\ Len(string') = Len(string) + 1
            /\ Followed(string', string, <<Last(string')>>)]_vars

\* C21: x and y have been multiplied by the inverse of x, and all three
\* letters are there
ConcatenationLawWitness ==
    /\ op = "mul"
    /\ saved = << <<"Inv", "x">> >>
    /\ string = << <<"Id", "x">>, <<"Id", "y">>, <<"Inv", "x">> >>

(* ------------- words under PowRule: the canonical form ----------------- *)
NextPowCanon ==
    \/ WordOne
    \/ \E c \in PowLetters : WordFrom(c)
    \/ \E c \in PowLetters : MulLetter("PowRule", c)
    \/ \E c \in PowLetters : DivLetter("PowRule", c)
    \/ \E b \in BuiltWords \cup {string} : MulBy("PowRule", b, FALSE)
    \/ \E b \in BuiltWords \cup {string} : DivBy("PowRule", b, FALSE)
    \/ WordInv("PowRule")

SpecPowCanon == InitWord /\ [][NextPowCanon]_vars

\* C22: under PowRule, every word built from a single letter of any
\* exponent, zero included, from one(), and by multiplying, dividing and
\* inverting letters and words is canonical: no letter has exponent zero
\* and no two adjacent letters have the same base.
AlwaysCanonical == Canonical(string)
====
